---- MODULE Spec2Model ----
(***************************************************************************)
(* A model of the Done queue client (src/src/client.ts): the three         *)
(* operations sendMessage, getMessage and getMessagesByStatus, the request *)
(* each hands to fetch and the value each builds from the response.        *)
(*                                                                         *)
(* JavaScript values are tagged records [t |-> tag, v |-> payload]; an     *)
(* object is its property list, a sequence of <<key, value>> pairs in      *)
(* insertion order with distinct keys.  Strings are TLA+ strings and are   *)
(* read character by character where the runtime does (Date parsing).      *)
(***************************************************************************)
EXTENDS Integers, Sequences, FiniteSets, TLC

\* ------------------------------------------------------------------------
\* JavaScript values
\* ------------------------------------------------------------------------

Undefined == [t |-> "undefined", v |-> 0]

Null == [t |-> "null", v |-> 0]

Str(s) == [t |-> "str", v |-> s]

Num(n) == [t |-> "num", v |-> n]

Bool(b) == [t |-> "bool", v |-> b]

\* An object: v is the property list.
Obj(props) == [t |-> "obj", v |-> props]

\* An array: v is the sequence of elements.
Arr(elems) == [t |-> "arr", v |-> elems]

\* A Date: its time value is <<day, msOfDay>> (ECMAScript's Day(t) and
\* TimeWithinDay(t)); the empty tuple is the time value NaN (Invalid Date).
DateOf(day, ms) == [t |-> "date", v |-> <<day, ms>>]

InvalidDate == [t |-> "date", v |-> <<>>]

\* A BigInt, one of the values `unknown` admits that JSON cannot carry.
BigInt(n) == [t |-> "bigint", v |-> n]

IsValidDate(d) == d.t = "date" /\ Len(d.v) = 2

\* ToBoolean: what `if (x)` and `x ? a : b` test.
Truthy(x) ==
  CASE x.t = "undefined" -> FALSE
    [] x.t = "null" -> FALSE
    [] x.t = "bool" -> x.v
    [] x.t = "num" -> x.v # 0
    [] x.t = "bigint" -> x.v # 0
    [] x.t = "str" -> x.v # ""
    [] OTHER -> TRUE

\* ------------------------------------------------------------------------
\* Property lists (plain objects)
\* ------------------------------------------------------------------------

Keys(props) == {props[i][1] : i \in 1..Len(props)}

Has(props, k) == \E i \in 1..Len(props) : props[i][1] = k

\* o[k]: the value of an own property, undefined when there is none.
Get(props, k) ==
  IF Has(props, k)
    THEN props[CHOOSE i \in 1..Len(props) : props[i][1] = k][2]
    ELSE Undefined

\* As Get, for a Record<string, string> whose values are plain strings.
GetStr(props, k) == props[CHOOSE i \in 1..Len(props) : props[i][1] = k][2]

\* The number of properties named k.
Count(props, k) == Cardinality({i \in 1..Len(props) : props[i][1] = k})

\* o[k] = x: overwrites the property in place, or appends a new one.
Put(props, k, x) ==
  IF Has(props, k)
    THEN [i \in 1..Len(props) |-> IF props[i][1] = k THEN <<k, x>> ELSE props[i]]
    ELSE Append(props, <<k, x>>)

\* { ...a, k1: x1, ... }: the properties of a, then each written with Put.
RECURSIVE PutAll(_, _)
PutAll(props, more) ==
  IF more = <<>> THEN props
  ELSE PutAll(Put(props, more[1][1], more[1][2]), Tail(more))

\* ------------------------------------------------------------------------
\* Strings
\* ------------------------------------------------------------------------

Digits == <<"0", "1", "2", "3", "4", "5", "6", "7", "8", "9">>

CharAt(s, i) == SubSeq(s, i, i)

IsDigit(c) == \E i \in 1..Len(Digits) : Digits[i] = c

DigitVal(c) == (CHOOSE i \in 1..Len(Digits) : Digits[i] = c) - 1

AllDigits(s) == \A i \in 1..Len(s) : IsDigit(CharAt(s, i))

\* The number a string of digits denotes.
RECURSIVE ParseNat(_)
ParseNat(s) ==
  IF Len(s) = 0 THEN 0
  ELSE ParseNat(SubSeq(s, 1, Len(s) - 1)) * 10 + DigitVal(CharAt(s, Len(s)))

\* n in decimal, zero-padded on the left to w characters.
RECURSIVE Pad(_, _)
Pad(n, w) == IF Len(ToString(n)) >= w THEN ToString(n) ELSE "0" \o Pad(n, w - 1)

StartsWith(s, prefix) ==
  Len(s) >= Len(prefix) /\ SubSeq(s, 1, Len(prefix)) = prefix

\* ------------------------------------------------------------------------
\* Date: new Date(value) and Date.prototype.toISOString, as ECMAScript
\* defines them (time values kept as <<day, msOfDay>>)
\* ------------------------------------------------------------------------

MsPerDay == 24 * 60 * 60 * 1000

\* The years the model's calendar arithmetic covers.
Years == 1970..2099

InLeapYear(y) == (y % 4 = 0 /\ y % 100 # 0) \/ y % 400 = 0

DayFromYear(y) ==
  365 * (y - 1970) + ((y - 1969) \div 4) - ((y - 1901) \div 100)
    + ((y - 1601) \div 400)

DaysInMonth(y, m) ==
  CASE m \in {4, 6, 9, 11} -> 30
    [] m = 2 -> IF InLeapYear(y) THEN 29 ELSE 28
    [] OTHER -> 31

\* The number of days of year y before month m.
RECURSIVE DaysBeforeMonth(_, _)
DaysBeforeMonth(y, m) ==
  IF m = 1 THEN 0 ELSE DaysBeforeMonth(y, m - 1) + DaysInMonth(y, m - 1)

MakeDay(y, m, d) == DayFromYear(y) + DaysBeforeMonth(y, m) + d - 1

\* A time value from a day number and a (possibly out of range) count of
\* milliseconds relative to that day's start.
MakeDate(day, ms) == DateOf(day + (ms \div MsPerDay), ms % MsPerDay)

\* The zone designator starting at position p of s, in minutes east of UTC,
\* or the empty tuple when s does not end in one there.
ParseZone(s, p) ==
  IF Len(s) = p /\ CharAt(s, p) = "Z" THEN <<0>>
  ELSE IF /\ Len(s) = p + 5
          /\ CharAt(s, p) \in {"+", "-"}
          /\ AllDigits(SubSeq(s, p + 1, p + 2))
          /\ CharAt(s, p + 3) = ":"
          /\ AllDigits(SubSeq(s, p + 4, p + 5))
          /\ ParseNat(SubSeq(s, p + 1, p + 2)) <= 23
          /\ ParseNat(SubSeq(s, p + 4, p + 5)) <= 59
    THEN LET mins == ParseNat(SubSeq(s, p + 1, p + 2)) * 60
                       + ParseNat(SubSeq(s, p + 4, p + 5))
         IN  <<IF CharAt(s, p) = "-" THEN 0 - mins ELSE mins>>
    ELSE <<>>

\* Date.parse on the date-time form YYYY-MM-DDTHH:mm:ss[.sss](Z|+HH:mm|-HH:mm)
\* of the ECMAScript date time string format; any other string gives the
\* time value NaN.
DateParse(s) ==
  IF ~ /\ Len(s) >= 20
       /\ AllDigits(SubSeq(s, 1, 4)) /\ CharAt(s, 5) = "-"
       /\ AllDigits(SubSeq(s, 6, 7)) /\ CharAt(s, 8) = "-"
       /\ AllDigits(SubSeq(s, 9, 10)) /\ CharAt(s, 11) = "T"
       /\ AllDigits(SubSeq(s, 12, 13)) /\ CharAt(s, 14) = ":"
       /\ AllDigits(SubSeq(s, 15, 16)) /\ CharAt(s, 17) = ":"
       /\ AllDigits(SubSeq(s, 18, 19))
    THEN InvalidDate
  ELSE
    LET y == ParseNat(SubSeq(s, 1, 4))
        mo == ParseNat(SubSeq(s, 6, 7))
        d == ParseNat(SubSeq(s, 9, 10))
        h == ParseNat(SubSeq(s, 12, 13))
        mi == ParseNat(SubSeq(s, 15, 16))
        sec == ParseNat(SubSeq(s, 18, 19))
        hasMs == /\ CharAt(s, 20) = "." /\ Len(s) >= 24
                 /\ AllDigits(SubSeq(s, 21, 23))
        ms == IF hasMs THEN ParseNat(SubSeq(s, 21, 23)) ELSE 0
        zone == ParseZone(s, IF hasMs THEN 24 ELSE 20)
    IN  IF /\ y \in Years /\ mo \in 1..12 /\ d \in 1..DaysInMonth(y, mo)
           /\ h <= 23 /\ mi <= 59 /\ sec <= 59 /\ zone # <<>>
          THEN MakeDate(MakeDay(y, mo, d),
                        ((h * 60 + mi - zone[1]) * 60 + sec) * 1000 + ms)
          ELSE InvalidDate

\* new Date(value): a string is parsed, anything else is converted to a
\* number first (undefined to NaN, null and false to 0, true to 1).
NewDate(x) ==
  CASE x.t = "str" -> DateParse(x.v)
    [] x.t = "undefined" -> InvalidDate
    [] x.t = "null" -> DateOf(0, 0)
    [] x.t = "bool" -> DateOf(0, IF x.v THEN 1 ELSE 0)
    [] x.t = "num" -> MakeDate(0, x.v)
    [] x.t = "date" -> x
    [] OTHER -> InvalidDate

YearFromDay(day) ==
  CHOOSE y \in Years : DayFromYear(y) <= day /\ day < DayFromYear(y + 1)

MonthFromDay(day) ==
  LET y == YearFromDay(day)
      n == day - DayFromYear(y)
  IN  CHOOSE m \in 1..12 :
        DaysBeforeMonth(y, m) <= n /\ n < DaysBeforeMonth(y, m) + DaysInMonth(y, m)

DateFromDay(day) ==
  LET y == YearFromDay(day)
  IN  day - DayFromYear(y) - DaysBeforeMonth(y, MonthFromDay(day)) + 1

\* toISOString of a valid Date: always YYYY-MM-DDTHH:mm:ss.sssZ, in UTC.
\* (It throws a RangeError on an Invalid Date; the client only applies it to
\* the caller's delay and notBefore.)
ToISOString(d) ==
  LET day == d.v[1]
      ms == d.v[2]
  IN  Pad(YearFromDay(day), 4) \o "-" \o Pad(MonthFromDay(day), 2) \o "-"
        \o Pad(DateFromDay(day), 2) \o "T" \o Pad(ms \div 3600000, 2) \o ":"
        \o Pad((ms \div 60000) % 60, 2) \o ":" \o Pad((ms \div 1000) % 60, 2)
        \o "." \o Pad(ms % 1000, 3) \o "Z"

\* ------------------------------------------------------------------------
\* JSON.stringify, for the values a caller passes as a body (strings here
\* hold no character that needs escaping)
\* ------------------------------------------------------------------------

RECURSIVE JSONStringify(_)
RECURSIVE JSONMembers(_)
RECURSIVE JSONElements(_)

\* The members of an object; a property whose value is undefined is skipped.
JSONMembers(props) ==
  IF props = <<>> THEN ""
  ELSE LET rest == JSONMembers(Tail(props))
       IN  IF props[1][2].t = "undefined" THEN rest
           ELSE "\"" \o props[1][1] \o "\":" \o JSONStringify(props[1][2])
                  \o (IF rest = "" THEN "" ELSE "," \o rest)

\* The elements of an array; undefined is written as null.
JSONElements(elems) ==
  IF elems = <<>> THEN ""
  ELSE (IF elems[1].t = "undefined" THEN "null" ELSE JSONStringify(elems[1]))
         \o (IF Len(elems) = 1 THEN "" ELSE "," \o JSONElements(Tail(elems)))

JSONStringify(x) ==
  CASE x.t = "null" -> "null"
    [] x.t = "bool" -> IF x.v THEN "true" ELSE "false"
    [] x.t = "num" -> ToString(x.v)
    [] x.t = "str" -> "\"" \o x.v \o "\""
    [] x.t = "date" ->
         IF IsValidDate(x) THEN "\"" \o ToISOString(x) \o "\"" ELSE "null"
    [] x.t = "arr" -> "[" \o JSONElements(x.v) \o "]"
    [] x.t = "obj" -> "{" \o JSONMembers(x.v) \o "}"

\* JSON.stringify returns for x: it throws a TypeError on a BigInt, at any
\* depth.
RECURSIVE Serializable(_)
Serializable(x) ==
  CASE x.t = "bigint" -> FALSE
    [] x.t = "arr" -> \A i \in 1..Len(x.v) : Serializable(x.v[i])
    [] x.t = "obj" -> \A i \in 1..Len(x.v) : Serializable(x.v[i][2])
    [] OTHER -> TRUE

\* JSON.parse of a response body restricted to the texts in `table`, a set of
\* <<text, value>> pairs: a text of the table parses to its value, any other
\* text is a SyntaxError (the empty tuple).
JSONParse(table, text) ==
  IF \E p \in table : p[1] = text
    THEN <<(CHOOSE p \in table : p[1] = text)[2]>>
    ELSE <<>>

\* An Error object: its constructor's name and its message.
Err(name, message) == [t |-> "error", v |-> <<name, message>>]

\* ------------------------------------------------------------------------
\* Bounds and the inputs drawn
\* ------------------------------------------------------------------------

\* The operations that may be in flight at once on the client.
MaxCalls == 2

\* The longest list a by-status response holds.
MaxEntries == 2

Calls == 1..MaxCalls

\* DoneClientConfig values a client is constructed with.
Configs ==
  { [baseUrl |-> "https://api.example.com", authToken |-> "test-token"],
    [baseUrl |-> "http://localhost:3001", authToken |-> "s3cret"] }

CallbackUrls == {"webhook-url", "https://webhook.example.com"}

MessageIds == {"msg-123", "msg_9"}

\* enum MessageStatus
MessageStatus ==
  {"CREATED", "QUEUED", "DELIVER", "SENT", "RETRY", "DLQ", "ARCHIVED"}

Bodies ==
  { Undefined, Num(0), Bool(FALSE), Str(""), Null,
    Obj(<< <<"test", Str("data")>>, <<"n", Num(0)>>,
           <<"tags", Arr(<<Str("a"), Null>>)>> >>),
    Obj(<< <<"id", BigInt(10)>> >>) }

\* delay: absent, a duration string, or a Date (2024-01-01T15:00:00.000Z).
Delays == {Undefined, Str(""), Str("5m"), DateOf(19723, 54000000)}

\* notBefore: absent, or a Date (2024-02-29T10:00:00.500Z).
NotBefores == {Undefined, DateOf(19782, 36000500)}

MaxAttemptsValues == {Undefined, Num(0), Num(5)}

FailureCallbacks == {Undefined, Str(""), Str("https://fail.example.com")}

\* options.headers: absent, or a Record<string, string>.
CustomHeaders ==
  { Undefined,
    Obj(<<>>),
    Obj(<< <<"Custom-Header", Str("custom-value")>> >>),
    Obj(<< <<"Authorization", Str("Bearer token123")>>,
           <<"X-Custom-ID", Str("order-456")>> >>),
    Obj(<< <<"Delay", Str("1h")>>, <<"Max-Attempts", Str("9")>>,
           <<"Failure-Callback", Str("")>>, <<"Not-Before", Str("soon")>> >>) }

\* An options object holding exactly the options that are supplied.
MakeOptions(delay, notBefore, maxAttempts, failureCallback, headers) ==
  LET all == << <<"delay", delay>>, <<"notBefore", notBefore>>,
                <<"headers", headers>>, <<"maxAttempts", maxAttempts>>,
                <<"failureCallback", failureCallback>> >>
  IN  Obj(SelectSeq(all, LAMBDA p : p[2] # Undefined))

\* Options whose delay or notBefore is a Date that holds no point in time
\* (new Date("tomorrow")): an Invalid Date.
InvalidDateOptions ==
  { MakeOptions(InvalidDate, Undefined, Undefined, Undefined, Undefined),
    MakeOptions(Undefined, InvalidDate, Undefined, Undefined, Undefined),
    MakeOptions(Str("5m"), InvalidDate, Num(5), Str("https://fail.example.com"),
                Obj(<< <<"Custom-Header", Str("custom-value")>> >>)) }

OptionsValues ==
  {Undefined} \cup InvalidDateOptions \cup
  { MakeOptions(d, nb, ma, fc, h) :
      d \in Delays, nb \in NotBefores, ma \in MaxAttemptsValues,
      fc \in FailureCallbacks, h \in CustomHeaders }

\* ------------------------------------------------------------------------
\* Responses the transport may deliver
\* ------------------------------------------------------------------------

\* ISO-8601 timestamps as the service writes them.
WireTimestamps ==
  { "2024-01-01T12:00:00Z", "2024-01-01T12:05:00.000Z",
    "2024-03-01T01:30:00.250+02:00" }

\* What follows `first` in an object: each of `optional` (<<key, values>>
\* pairs, in order) either left out or given one of its values.
RECURSIVE WithOptional(_, _)
WithOptional(firsts, optional) ==
  IF optional = <<>> THEN firsts
  ELSE WithOptional(
         firsts \cup { Append(f, <<optional[1][1], x>>) :
                         f \in firsts, x \in optional[1][2] },
         Tail(optional))

\* Success bodies of sendMessage, as JSON values.
SendResults ==
  { Obj(<< <<"messageId", Str(m)>>, <<"scheduledAt", Str(ts)>> >>) :
      m \in {"msg-123"}, ts \in WireTimestamps }
  \cup { Obj(<< <<"messageId", Str("msg-123")>> >>) }

\* Success bodies of getMessage.
MessageResults ==
  { Obj(props) : props \in
      WithOptional(
        { << <<"id", Str("msg-123")>>,
             <<"callbackUrl", Str("https://example.com/webhook")>>,
             <<"status", Str("QUEUED")>>, <<"attempts", Num(1)>>,
             <<"maxAttempts", Num(3)>>, <<"createdAt", Str(c)>>,
             <<"updatedAt", Str(u)>>, <<"scheduledAt", Str(sc)>> >> :
            c \in WireTimestamps, u \in {"2024-01-01T12:05:00.000Z"},
            sc \in WireTimestamps },
        << <<"lastAttemptAt", {Str(ts) : ts \in WireTimestamps} \cup {Null}>>,
           <<"error", {Str("timeout")}>> >>) }
  \cup { Obj(<< <<"id", Str("msg-123")>>, <<"status", Str("QUEUED")>>,
                <<"createdAt", Str("2024-01-01T12:00:00Z")>> >>) }

\* Entries of a by-status listing.
StatusEntries ==
  { Obj(<< <<"id", Str("msg-1")>>, <<"status", Str("QUEUED")>>,
           <<"attempts", Num(0)>>,
           <<"scheduledAt", Str("2024-01-01T12:00:00Z")>> >>),
    Obj(<< <<"id", Str("msg-2")>>, <<"status", Str("RETRY")>>,
           <<"attempts", Num(1)>>,
           <<"scheduledAt", Str("2024-01-01T12:05:00.000Z")>>,
           <<"lastAttemptAt", Str("2024-03-01T01:30:00.250+02:00")>>,
           <<"error", Str("timeout")>> >>),
    Obj(<< <<"id", Str("msg-4")>>, <<"status", Str("DLQ")>>,
           <<"attempts", Num(3)>>, <<"lastAttemptAt", Null>> >>) }

\* Success bodies of getMessagesByStatus: lists of at most MaxEntries entries.
StatusResults ==
  { Arr(l) : l \in UNION {[1..n -> StatusEntries] : n \in 0..MaxEntries} }

\* Bodies of a failure response that are JSON.
ErrorResults == { Obj(<< <<"error", Str("bad request")>> >>) }

ResultsOf(operation) ==
  CASE operation = "sendMessage" -> SendResults
    [] operation = "getMessage" -> MessageResults
    [] operation = "getMessagesByStatus" -> StatusResults

\* The <<text, value>> pairs of the JSON bodies an operation's endpoint sends.
WireTable(operation) ==
  { <<JSONStringify(x), x>> : x \in ResultsOf(operation) \cup ErrorResults }

\* Body texts that are not JSON.
NonJsonTexts == {"", "Bad Request"}

\* <<status, statusText>> of the responses delivered.
StatusLines ==
  {<<200, "OK">>, <<300, "Multiple Choices">>, <<400, "Bad Request">>}

\* The status is in the success range (Response.ok).
ResponseOk(status) == status >= 200 /\ status <= 299

MakeResponse(line, text) ==
  [kind |-> "response", status |-> line[1], statusText |-> line[2],
   body |-> text, error |-> Undefined]

\* The responses an operation may receive: a success status with one of its
\* result bodies or a text that is not JSON, or a failure status with any
\* kind of body.
ResponsesFor(operation) ==
  { MakeResponse(line, text) :
      line \in {l \in StatusLines : ResponseOk(l[1])},
      text \in {JSONStringify(x) : x \in ResultsOf(operation)} \cup NonJsonTexts }
  \cup
  { MakeResponse(line, text) :
      line \in {l \in StatusLines : ~ResponseOk(l[1])},
      text \in {JSONStringify(x) : x \in ErrorResults} \cup NonJsonTexts }

\* The failure fetch rejects with when the exchange cannot be completed.
TransportFailure ==
  [kind |-> "failure", status |-> 0, statusText |-> "", body |-> "",
   error |-> Err("TypeError", "error sending request")]

\* The failures of the transport: no connection, or a base URL that is no
\* URL.
TransportFailures ==
  { TransportFailure,
    [TransportFailure EXCEPT !.error = Err("TypeError", "Invalid URL")] }

NoResponse ==
  [kind |-> "none", status |-> 0, statusText |-> "", body |-> "",
   error |-> Undefined]

\* ------------------------------------------------------------------------
\* DoneClient: the request each operation builds
\* ------------------------------------------------------------------------

\* options?.name
OptionOf(options, name) ==
  IF options.t = "obj" THEN Get(options.v, name) ELSE Undefined

\* `Bearer ${this.config.authToken}`
Bearer(cfg) == "Bearer " \o cfg.authToken

\* A faulty variant of AddCustomHeaders: a header that is already set is
\* left as it is, so the first write wins.
RECURSIVE AddCustomHeadersKeepExisting(_, _)
AddCustomHeadersKeepExisting(headers, entries) ==
  IF entries = <<>> THEN headers
  ELSE AddCustomHeadersKeepExisting(
         IF Has(headers, "Done-" \o entries[1][1]) THEN headers
         ELSE Put(headers, "Done-" \o entries[1][1], entries[1][2].v),
         Tail(entries))

\* for (const [key, value] of Object.entries(options.headers))
\*   headers[`Done-${key}`] = value;
RECURSIVE AddCustomHeaders(_, _)
AddCustomHeaders(headers, entries) ==
  IF entries = <<>> THEN headers
  ELSE AddCustomHeaders(Put(headers, "Done-" \o entries[1][1], entries[1][2].v),
                        Tail(entries))

\* A faulty variant of SendHeaders: the custom headers are assigned before
\* the control headers, so a control option overwrites a colliding entry.
SendHeadersCustomFirst(cfg, options) ==
  LET delay == OptionOf(options, "delay")
      notBefore == OptionOf(options, "notBefore")
      maxAttempts == OptionOf(options, "maxAttempts")
      failureCallback == OptionOf(options, "failureCallback")
      custom == OptionOf(options, "headers")
      h0 == << <<"Authorization", Bearer(cfg)>>,
               <<"Content-Type", "application/json">> >>
      h1 == IF Truthy(custom) THEN AddCustomHeaders(h0, custom.v) ELSE h0
      h2 == IF Truthy(delay)
              THEN Put(h1, "Done-Delay",
                       IF delay.t = "str" THEN delay.v ELSE ToISOString(delay))
              ELSE h1
      h3 == IF Truthy(notBefore)
              THEN Put(h2, "Done-Not-Before", ToISOString(notBefore))
              ELSE h2
      h4 == IF Truthy(maxAttempts)
              THEN Put(h3, "Done-Max-Attempts", ToString(maxAttempts.v))
              ELSE h3
  IN  IF Truthy(failureCallback)
        THEN Put(h4, "Done-Failure-Callback", failureCallback.v)
        ELSE h4

\* The headers object of sendMessage: the two fixed headers, then one
\* assignment per option that is truthy, the custom headers last.
SendHeaders(cfg, options) ==
  LET delay == OptionOf(options, "delay")
      notBefore == OptionOf(options, "notBefore")
      maxAttempts == OptionOf(options, "maxAttempts")
      failureCallback == OptionOf(options, "failureCallback")
      custom == OptionOf(options, "headers")
      h0 == << <<"Authorization", Bearer(cfg)>>,
               <<"Content-Type", "application/json">> >>
      h1 == IF Truthy(delay)
              THEN Put(h0, "Done-Delay",
                       IF delay.t = "str" THEN delay.v ELSE ToISOString(delay))
              ELSE h0
      h2 == IF Truthy(notBefore)
              THEN Put(h1, "Done-Not-Before", ToISOString(notBefore))
              ELSE h1
      h3 == IF Truthy(maxAttempts)
              THEN Put(h2, "Done-Max-Attempts", ToString(maxAttempts.v))
              ELSE h2
      h4 == IF Truthy(failureCallback)
              THEN Put(h3, "Done-Failure-Callback", failureCallback.v)
              ELSE h3
  IN  IF Truthy(custom) THEN AddCustomHeaders(h4, custom.v) ELSE h4

\* What sendMessage throws while it builds the request, undefined when it
\* gets to its fetch: toISOString throws a RangeError on an Invalid Date
\* (delay first, then notBefore), JSON.stringify a TypeError on a body it
\* cannot serialize.
SendBuildError(body, options) ==
  LET delay == OptionOf(options, "delay")
      notBefore == OptionOf(options, "notBefore")
  IN  IF Truthy(delay) /\ delay.t # "str" /\ ~IsValidDate(delay)
        THEN Err("RangeError", "Invalid time value")
      ELSE IF Truthy(notBefore) /\ ~IsValidDate(notBefore)
        THEN Err("RangeError", "Invalid time value")
      ELSE IF Truthy(body) /\ ~Serializable(body)
        THEN Err("TypeError", "Do not know how to serialize a BigInt")
      ELSE Undefined

\* if (body) fetchOptions.body = JSON.stringify(body): the payload, or
\* undefined when none is set.
SendPayload(body) ==
  IF Truthy(body) THEN Str(JSONStringify(body)) ELSE Undefined

\* fetch(`${baseUrl}/v1/${callbackUrl}`, {method: "POST", headers, body?})
SendRequest(cfg, callbackUrl, body, options) ==
  [url |-> cfg.baseUrl \o "/v1/" \o callbackUrl, method |-> "POST",
   headers |-> SendHeaders(cfg, options), body |-> SendPayload(body)]

\* A faulty variant of GetMessageRequest: the /v1 path prefix is left out.
GetMessageRequestNoVersion(cfg, messageId) ==
  [url |-> cfg.baseUrl \o "/" \o messageId, method |-> "GET",
   headers |-> << <<"Authorization", Bearer(cfg)>> >>, body |-> Undefined]

\* fetch(`${baseUrl}/v1/${messageId}`, {headers: {Authorization}}): no method
\* is given, so the request is a GET, and no body.
GetMessageRequest(cfg, messageId) ==
  [url |-> cfg.baseUrl \o "/v1/" \o messageId, method |-> "GET",
   headers |-> << <<"Authorization", Bearer(cfg)>> >>, body |-> Undefined]

\* fetch(`${baseUrl}/v1/by-status/${status}`, {headers: {Authorization}})
GetMessagesByStatusRequest(cfg, status) ==
  [url |-> cfg.baseUrl \o "/v1/by-status/" \o status, method |-> "GET",
   headers |-> << <<"Authorization", Bearer(cfg)>> >>, body |-> Undefined]

NoRequest == [url |-> "", method |-> "", headers |-> <<>>, body |-> Undefined]

\* ------------------------------------------------------------------------
\* DoneClient: what each operation makes of the response
\* ------------------------------------------------------------------------

\* How an operation settles: kind is "resolved" (value is the result) or
\* "rejected" (value is the error); json tells whether response.json() ran.
Resolved(x) == [kind |-> "resolved", value |-> x, json |-> TRUE]

Rejected(e, decoded) == [kind |-> "rejected", value |-> e, json |-> decoded]

Pending == [kind |-> "pending", value |-> Undefined, json |-> FALSE]

\* A faulty variant of FailureError: the status text is left out.
FailureErrorNoText(label, resp) ==
  Err("Error", label \o ": " \o ToString(resp.status))

\* new Error(`${label}: ${response.status} ${response.statusText}`)
FailureError(label, resp) ==
  Err("Error", label \o ": " \o ToString(resp.status) \o " " \o resp.statusText)

\* x.name for a value read from JSON: a property of an object, undefined on
\* any other value but null, where the access throws.
Prop(x, name) == IF x.t = "obj" THEN Get(x.v, name) ELSE Undefined

NullAccess == Err("TypeError", "Cannot read properties of null")

\* A faulty variant of Decode: a transport failure is caught and thrown
\* again as the operation's own labelled error.
DecodeWrapping(operation, label, resp) ==
  IF resp.kind = "failure"
    THEN Rejected(Err("Error", label \o ": " \o resp.error.v[2]), FALSE)
  ELSE IF ~ResponseOk(resp.status)
    THEN Rejected(FailureError(label, resp), FALSE)
  ELSE LET parsed == JSONParse(WireTable(operation), resp.body)
       IN  IF parsed = <<>>
             THEN Rejected(Err("SyntaxError", "Unexpected token"), TRUE)
             ELSE [kind |-> "parsed", value |-> parsed[1], json |-> TRUE]

\* The common start of the three operations after `await fetch(...)`: a
\* transport failure is rethrown, a status outside the success range throws
\* the labelled error, otherwise the body is parsed: kind "parsed" carries
\* the parsed value, unless response.json() throws.
Decode(operation, label, resp) ==
  IF resp.kind = "failure" THEN Rejected(resp.error, FALSE)
  ELSE IF ~ResponseOk(resp.status)
    THEN Rejected(FailureError(label, resp), FALSE)
  ELSE LET parsed == JSONParse(WireTable(operation), resp.body)
       IN  IF parsed = <<>>
             THEN Rejected(Err("SyntaxError", "Unexpected token"), TRUE)
             ELSE [kind |-> "parsed", value |-> parsed[1], json |-> TRUE]

\* The operation returns what it made of the parsed value, or throws the
\* error that making it raised.
Finish(made) ==
  IF made.t = "error" THEN Rejected(made, TRUE) ELSE Resolved(made)

\* { messageId: result.messageId, scheduledAt: new Date(result.scheduledAt) }
SendResult(result) ==
  IF result.t = "null" THEN NullAccess
  ELSE Obj(<< <<"messageId", Prop(result, "messageId")>>,
              <<"scheduledAt", NewDate(Prop(result, "scheduledAt"))>> >>)

\* A faulty variant of Spread: the response's own fields are not copied.
SpreadNothing(x) == <<>>

\* The properties { ...x } copies: those of an object, none of a primitive.
Spread(x) == IF x.t = "obj" THEN x.v ELSE <<>>

\* data.lastAttemptAt ? new Date(data.lastAttemptAt) : undefined
OptionalDate(x) == IF Truthy(x) THEN NewDate(x) ELSE Undefined

\* A faulty variant of MessageResult: updatedAt is copied as the string it
\* arrived as.
MessageResultRawUpdatedAt(data) ==
  IF data.t = "null" THEN NullAccess
  ELSE Obj(PutAll(Spread(data),
         << <<"createdAt", NewDate(Prop(data, "createdAt"))>>,
            <<"scheduledAt", NewDate(Prop(data, "scheduledAt"))>>,
            <<"lastAttemptAt", OptionalDate(Prop(data, "lastAttemptAt"))>> >>))

\* { ...data, createdAt: new Date(data.createdAt), updatedAt: ...,
\*   scheduledAt: ..., lastAttemptAt: data.lastAttemptAt ? ... : undefined }
MessageResult(data) ==
  IF data.t = "null" THEN NullAccess
  ELSE Obj(PutAll(Spread(data),
         << <<"createdAt", NewDate(Prop(data, "createdAt"))>>,
            <<"updatedAt", NewDate(Prop(data, "updatedAt"))>>,
            <<"scheduledAt", NewDate(Prop(data, "scheduledAt"))>>,
            <<"lastAttemptAt", OptionalDate(Prop(data, "lastAttemptAt"))>> >>))

\* A faulty variant of StatusEntryResult: lastAttemptAt is decoded from the
\* entry's scheduledAt.
StatusEntryResultSameField(item) ==
  Obj(PutAll(Spread(item),
        << <<"scheduledAt", NewDate(Prop(item, "scheduledAt"))>>,
           <<"lastAttemptAt",
             IF Truthy(Prop(item, "lastAttemptAt"))
               THEN NewDate(Prop(item, "scheduledAt")) ELSE Undefined>> >>))

\* { ...item, scheduledAt: new Date(item.scheduledAt),
\*   lastAttemptAt: item.lastAttemptAt ? new Date(item.lastAttemptAt) : undefined }
StatusEntryResult(item) ==
  Obj(PutAll(Spread(item),
        << <<"scheduledAt", NewDate(Prop(item, "scheduledAt"))>>,
           <<"lastAttemptAt", OptionalDate(Prop(item, "lastAttemptAt"))>> >>))

\* A faulty variant of StatusListResult: the entries come back in reverse.
StatusListResultReversed(data) ==
  IF data.t = "null" THEN NullAccess
  ELSE IF data.t # "arr" THEN Err("TypeError", "data.map is not a function")
  ELSE IF \E i \in 1..Len(data.v) : data.v[i].t = "null" THEN NullAccess
  ELSE Arr([i \in 1..Len(data.v) |->
             StatusEntryResult(data.v[Len(data.v) + 1 - i])])

\* data.map((item) => ...): an array maps entry by entry, in order; any
\* other value has no map method.
StatusListResult(data) ==
  IF data.t = "null" THEN NullAccess
  ELSE IF data.t # "arr" THEN Err("TypeError", "data.map is not a function")
  ELSE IF \E i \in 1..Len(data.v) : data.v[i].t = "null" THEN NullAccess
  ELSE Arr([i \in 1..Len(data.v) |-> StatusEntryResult(data.v[i])])

SendMessageSettle(resp) ==
  LET d == Decode("sendMessage", "Failed to send message", resp)
  IN  IF d.kind = "parsed" THEN Finish(SendResult(d.value)) ELSE d

GetMessageSettle(resp) ==
  LET d == Decode("getMessage", "Failed to get message", resp)
  IN  IF d.kind = "parsed" THEN Finish(MessageResult(d.value)) ELSE d

GetMessagesByStatusSettle(resp) ==
  LET d == Decode("getMessagesByStatus", "Failed to get messages by status", resp)
  IN  IF d.kind = "parsed" THEN Finish(StatusListResult(d.value)) ELSE d

\* ------------------------------------------------------------------------
\* The state machine: calls on one client, each from its invocation to the
\* settling of its promise
\* ------------------------------------------------------------------------

VARIABLES
  config,      \* the client's DoneClientConfig
  pc,          \* per call: "idle", "fetching", "responded" or "done"
  op,          \* per call: the operation invoked, "" when idle
  args,        \* per call: the arguments of the invocation
  request,     \* per call: the request handed to fetch
  response,    \* per call: what fetch settled with
  outcome,     \* per call: how the operation's promise settled
  fetchCount   \* per call: the requests this invocation has issued

vars == <<config, pc, op, args, request, response, outcome, fetchCount>>

NoArgs ==
  [callbackUrl |-> "", body |-> Undefined, options |-> Undefined,
   messageId |-> "", status |-> ""]

\* DoneClient.create(baseUrl, authToken): new DoneClient({baseUrl, authToken})
Init ==
  /\ config \in Configs
  /\ pc = [i \in Calls |-> "idle"]
  /\ op = [i \in Calls |-> ""]
  /\ args = [i \in Calls |-> NoArgs]
  /\ request = [i \in Calls |-> NoRequest]
  /\ response = [i \in Calls |-> NoResponse]
  /\ outcome = [i \in Calls |-> Pending]
  /\ fetchCount = [i \in Calls |-> 0]

\* A faulty variant of Invoke: the headers object is one object shared by the
\* calls, so a request also carries what a call still in flight has put
\* there.
InvokeSharedHeaders(i, operation, a, req) ==
  /\ pc' = [pc EXCEPT ![i] = "fetching"]
  /\ op' = [op EXCEPT ![i] = operation]
  /\ args' = [args EXCEPT ![i] = a]
  /\ LET others == {j \in Calls \ {i} : pc[j] # "idle" /\ request[j] # NoRequest}
         shared == IF others = {} THEN <<>>
                   ELSE request[CHOOSE j \in others : TRUE].headers
     IN  request' = [request EXCEPT ![i] =
                       [req EXCEPT !.headers = PutAll(shared, req.headers)]]
  /\ fetchCount' = [fetchCount EXCEPT ![i] = @ + 1]
  /\ UNCHANGED <<config, response, outcome>>

\* The synchronous part of an operation of an idle call, up to and including
\* its fetch.
Invoke(i, operation, a, req) ==
  /\ pc' = [pc EXCEPT ![i] = "fetching"]
  /\ op' = [op EXCEPT ![i] = operation]
  /\ args' = [args EXCEPT ![i] = a]
  /\ request' = [request EXCEPT ![i] = req]
  /\ fetchCount' = [fetchCount EXCEPT ![i] = @ + 1]
  /\ UNCHANGED <<config, response, outcome>>

\* An operation of an idle call throws before its fetch: its promise is
\* rejected and no request was made.
Throw(i, operation, a, e) ==
  /\ pc' = [pc EXCEPT ![i] = "done"]
  /\ op' = [op EXCEPT ![i] = operation]
  /\ args' = [args EXCEPT ![i] = a]
  /\ outcome' = [outcome EXCEPT ![i] = Rejected(e, FALSE)]
  /\ UNCHANGED <<config, request, response, fetchCount>>

\* client.sendMessage(callbackUrl, body, options), with its arguments drawn
\* from the given sets
SendMessageFrom(i, callbackUrls, bodies, optionsValues) ==
  /\ pc[i] = "idle"
  /\ \E callbackUrl \in callbackUrls, body \in bodies, options \in optionsValues :
       LET a == [NoArgs EXCEPT !.callbackUrl = callbackUrl, !.body = body,
                               !.options = options]
       IN  IF SendBuildError(body, options) # Undefined
             THEN Throw(i, "sendMessage", a, SendBuildError(body, options))
             ELSE Invoke(i, "sendMessage", a,
                         SendRequest(config, callbackUrl, body, options))

SendMessage(i) == SendMessageFrom(i, CallbackUrls, Bodies, OptionsValues)

\* client.getMessage(messageId), with its argument drawn from the given set
GetMessageFrom(i, messageIds) ==
  /\ pc[i] = "idle"
  /\ \E messageId \in messageIds :
       Invoke(i, "getMessage", [NoArgs EXCEPT !.messageId = messageId],
              GetMessageRequest(config, messageId))

GetMessage(i) == GetMessageFrom(i, MessageIds)

\* client.getMessagesByStatus(status), with its argument drawn from the
\* given set
GetMessagesByStatusFrom(i, statuses) ==
  /\ pc[i] = "idle"
  /\ \E status \in statuses :
       Invoke(i, "getMessagesByStatus", [NoArgs EXCEPT !.status = status],
              GetMessagesByStatusRequest(config, status))

GetMessagesByStatus(i) == GetMessagesByStatusFrom(i, MessageStatus)

\* The transport settles the pending fetch with one of the given responses.
FetchResolveWith(i, responses) ==
  /\ pc[i] = "fetching"
  /\ \E resp \in responses :
       response' = [response EXCEPT ![i] = resp]
  /\ pc' = [pc EXCEPT ![i] = "responded"]
  /\ UNCHANGED <<config, op, args, request, outcome, fetchCount>>

FetchResolve(i) == FetchResolveWith(i, ResponsesFor(op[i]))

\* The transport fails to complete the exchange: the fetch rejects, with one
\* of the given failures.
FetchRejectWith(i, failures) ==
  /\ pc[i] = "fetching"
  /\ \E failure \in failures :
       response' = [response EXCEPT ![i] = failure]
  /\ pc' = [pc EXCEPT ![i] = "responded"]
  /\ UNCHANGED <<config, op, args, request, outcome, fetchCount>>

FetchReject(i) == FetchRejectWith(i, TransportFailures)

\* A faulty variant of Resume: an operation that is about to fail fetches a
\* second time first.
ResumeRetrying(i, operation, settled) ==
  /\ pc[i] = "responded"
  /\ op[i] = operation
  /\ IF settled.kind = "rejected" /\ fetchCount[i] < 2
       THEN /\ pc' = [pc EXCEPT ![i] = "fetching"]
            /\ fetchCount' = [fetchCount EXCEPT ![i] = @ + 1]
            /\ response' = [response EXCEPT ![i] = NoResponse]
            /\ UNCHANGED <<config, op, args, request, outcome>>
       ELSE /\ outcome' = [outcome EXCEPT ![i] = settled]
            /\ pc' = [pc EXCEPT ![i] = "done"]
            /\ UNCHANGED <<config, op, args, request, response, fetchCount>>

\* The operation resumes after `await fetch(...)` and runs to its end.
Resume(i, operation, settled) ==
  /\ pc[i] = "responded"
  /\ op[i] = operation
  /\ outcome' = [outcome EXCEPT ![i] = settled]
  /\ pc' = [pc EXCEPT ![i] = "done"]
  /\ UNCHANGED <<config, op, args, request, response, fetchCount>>

SendMessageResume(i) ==
  Resume(i, "sendMessage", SendMessageSettle(response[i]))

GetMessageResume(i) ==
  Resume(i, "getMessage", GetMessageSettle(response[i]))

GetMessagesByStatusResume(i) ==
  Resume(i, "getMessagesByStatus", GetMessagesByStatusSettle(response[i]))

\* The caller has the settled promise; the call's frame is gone.
Return(i) ==
  /\ pc[i] = "done"
  /\ pc' = [pc EXCEPT ![i] = "idle"]
  /\ op' = [op EXCEPT ![i] = ""]
  /\ args' = [args EXCEPT ![i] = NoArgs]
  /\ request' = [request EXCEPT ![i] = NoRequest]
  /\ response' = [response EXCEPT ![i] = NoResponse]
  /\ outcome' = [outcome EXCEPT ![i] = Pending]
  /\ fetchCount' = [fetchCount EXCEPT ![i] = 0]
  /\ UNCHANGED config

\* A caller that awaits each operation before it starts the next: one call
\* in flight at a time.
SequentialCalls == {1}

Next ==
  \E i \in SequentialCalls :
    \/ SendMessage(i)
    \/ GetMessage(i)
    \/ GetMessagesByStatus(i)
    \/ FetchResolve(i)
    \/ FetchReject(i)
    \/ SendMessageResume(i)
    \/ GetMessageResume(i)
    \/ GetMessagesByStatusResume(i)
    \/ Return(i)

Spec == Init /\ [][Next]_vars

\* A caller that starts operations without awaiting the earlier ones
\* (Promise.all): every call slot runs at once, the requests and the
\* responses of the calls in any order.  The arguments and the responses are
\* drawn from a few of the values above.
FewBodies ==
  { Obj(<< <<"test", Str("data")>>, <<"n", Num(0)>>,
           <<"tags", Arr(<<Str("a"), Null>>)>> >>) }

FewOptions ==
  { Undefined,
    MakeOptions(Str("5m"), Undefined, Num(5), Undefined,
                Obj(<< <<"Custom-Header", Str("custom-value")>> >>)),
    MakeOptions(Undefined, InvalidDate, Undefined, Undefined, Undefined) }

FewResults(operation) ==
  CASE operation = "sendMessage" ->
         { Obj(<< <<"messageId", Str("msg-123")>>,
                  <<"scheduledAt", Str("2024-01-01T12:00:00Z")>> >>) }
    [] operation = "getMessage" ->
         { Obj(<< <<"id", Str("msg-123")>>, <<"status", Str("QUEUED")>>,
                  <<"createdAt", Str("2024-01-01T12:00:00Z")>> >>) }
    [] operation = "getMessagesByStatus" ->
         { Arr(<< Obj(<< <<"id", Str("msg-1")>>, <<"status", Str("QUEUED")>>,
                         <<"attempts", Num(0)>>,
                         <<"scheduledAt", Str("2024-01-01T12:00:00Z")>> >>) >>) }

FewResponsesFor(operation) ==
  { MakeResponse(<<200, "OK">>, JSONStringify(x)) : x \in FewResults(operation) }
  \cup { MakeResponse(<<400, "Bad Request">>, "Bad Request") }

ConcurrentNext ==
  \E i \in Calls :
    \/ SendMessageFrom(i, {"webhook-url"}, FewBodies, FewOptions)
    \/ GetMessageFrom(i, {"msg-123"})
    \/ GetMessagesByStatusFrom(i, {"QUEUED"})
    \/ FetchResolveWith(i, FewResponsesFor(op[i]))
    \/ FetchRejectWith(i, {TransportFailure})
    \/ SendMessageResume(i)
    \/ GetMessageResume(i)
    \/ GetMessagesByStatusResume(i)
    \/ Return(i)

ConcurrentSpec == Init /\ [][ConcurrentNext]_vars

\* ------------------------------------------------------------------------
\* Properties
\* ------------------------------------------------------------------------

\* The call has handed a request to the transport.
Issued(i) == pc[i] # "idle" /\ fetchCount[i] > 0

IsSend(i) == Issued(i) /\ op[i] = "sendMessage"

\* The custom-headers entries of a sendMessage call, none when not supplied.
CustomEntries(i) ==
  LET custom == OptionOf(args[i].options, "headers")
  IN  IF custom.t = "obj" THEN custom.v ELSE <<>>

CustomNames(i) ==
  {"Done-" \o CustomEntries(i)[j][1] : j \in 1..Len(CustomEntries(i))}

\* C1: the request of every call matches the wire table: sendMessage is a POST
\* to baseUrl/v1/callbackUrl whose only headers outside the Done- namespace
\* are Authorization = "Bearer " + authToken and Content-Type =
\* "application/json", each once, whatever the options; getMessage is a GET
\* to baseUrl/v1/messageId and getMessagesByStatus a GET to
\* baseUrl/v1/by-status/STATUS, each with that Authorization as its only
\* header and no payload.
RequestMatchesWireTable ==
  \A i \in Calls :
    Issued(i) =>
      LET r == request[i]
          a == args[i]
          auth == "Bearer " \o config.authToken
      IN  CASE op[i] = "sendMessage" ->
                 /\ r.method = "POST"
                 /\ r.url = config.baseUrl \o "/v1/" \o a.callbackUrl
                 /\ Count(r.headers, "Authorization") = 1
                 /\ GetStr(r.headers, "Authorization") = auth
                 /\ Count(r.headers, "Content-Type") = 1
                 /\ GetStr(r.headers, "Content-Type") = "application/json"
                 /\ \A name \in Keys(r.headers) :
                      \/ name \in {"Authorization", "Content-Type"}
                      \/ StartsWith(name, "Done-")
            [] op[i] = "getMessage" ->
                 /\ r.method = "GET"
                 /\ r.url = config.baseUrl \o "/v1/" \o a.messageId
                 /\ r.headers = << <<"Authorization", auth>> >>
                 /\ r.body = Undefined
            [] op[i] = "getMessagesByStatus" ->
                 /\ a.status \in MessageStatus
                 /\ r.method = "GET"
                 /\ r.url = config.baseUrl \o "/v1/by-status/" \o a.status
                 /\ r.headers = << <<"Authorization", auth>> >>
                 /\ r.body = Undefined

\* A sendMessage request built from a custom-headers mapping that names
\* Authorization, and a getMessage request, have been issued.
WireTableWitness ==
  /\ IsSend(1)
  /\ "Done-Authorization" \in CustomNames(1)
  /\ OptionOf(args[1].options, "delay") = Str("5m")
  /\ request[1].url = "http://localhost:3001/v1/https://webhook.example.com"

\* C2: the payload of a sendMessage request is the JSON text of the body the
\* caller supplied, for every supplied body (0, false, "" and null
\* included), and there is no payload only when the body is omitted.
PayloadIsJsonOfBody ==
  \A i \in Calls :
    IsSend(i) =>
      IF args[i].body = Undefined
        THEN request[i].body = Undefined
        ELSE request[i].body = Str(JSONStringify(args[i].body))

\* C3: absent a custom header named Delay, a string delay (the empty string
\* included) is sent verbatim as the one Done-Delay header, a point in time
\* as its ISO-8601 form, and no delay means no Done-Delay header.
DelayHeaderForwarded ==
  \A i \in Calls :
    (IsSend(i) /\ "Done-Delay" \notin CustomNames(i)) =>
      LET delay == OptionOf(args[i].options, "delay")
          h == request[i].headers
      IN  CASE delay.t = "str" ->
                 Count(h, "Done-Delay") = 1 /\ GetStr(h, "Done-Delay") = delay.v
            [] delay.t = "date" ->
                 /\ Count(h, "Done-Delay") = 1
                 /\ GetStr(h, "Done-Delay") = ToISOString(delay)
            [] OTHER -> Count(h, "Done-Delay") = 0

\* The header each control option is sent under.
ControlHeader ==
  [delay |-> "Done-Delay", notBefore |-> "Done-Not-Before",
   maxAttempts |-> "Done-Max-Attempts",
   failureCallback |-> "Done-Failure-Callback"]

\* C4: every custom-headers entry K -> V gives exactly one request header
\* Done-K with the value V, whatever other options are set, and every header
\* in the Done- namespace comes from a custom entry or from a supplied
\* delay, notBefore, maxAttempts or failureCallback option.
CustomHeadersForwarded ==
  \A i \in Calls :
    IsSend(i) =>
      LET h == request[i].headers
          entries == CustomEntries(i)
      IN  /\ \A j \in 1..Len(entries) :
               /\ Count(h, "Done-" \o entries[j][1]) = 1
               /\ GetStr(h, "Done-" \o entries[j][1]) = entries[j][2].v
          /\ \A name \in Keys(h) :
               StartsWith(name, "Done-") =>
                 \/ name \in CustomNames(i)
                 \/ \E o \in DOMAIN ControlHeader :
                      /\ name = ControlHeader[o]
                      /\ OptionOf(args[i].options, o) # Undefined

\* A request whose custom headers name Delay and Max-Attempts while the delay
\* and maxAttempts options are set too.
CustomHeadersWitness ==
  /\ IsSend(1)
  /\ "Done-Delay" \in CustomNames(1)
  /\ OptionOf(args[1].options, "delay") = Str("5m")
  /\ OptionOf(args[1].options, "maxAttempts") = Num(5)
  /\ GetStr(request[1].headers, "Done-Delay") = "1h"

\* C5: absent a custom header of the same name, each of notBefore,
\* maxAttempts and failureCallback that the options hold is sent under its
\* header (ISO-8601 form, decimal string, verbatim), and one the options do
\* not hold has no header.
ControlOptionsForwarded ==
  \A i \in Calls :
    IsSend(i) =>
      \A o \in {"notBefore", "maxAttempts", "failureCallback"} :
        ControlHeader[o] \notin CustomNames(i) =>
          LET x == OptionOf(args[i].options, o)
              h == request[i].headers
          IN  IF x = Undefined THEN Count(h, ControlHeader[o]) = 0
              ELSE /\ Count(h, ControlHeader[o]) = 1
                   /\ GetStr(h, ControlHeader[o]) =
                        CASE o = "notBefore" -> ToISOString(x)
                          [] o = "maxAttempts" -> ToString(x.v)
                          [] o = "failureCallback" -> x.v

\* The call has settled on a response with the given kind of status.
SettledOn(i, success) ==
  /\ pc[i] = "done"
  /\ response[i].kind = "response"
  /\ (response[i].status \in 200..299) = success

\* The JSON value the body of the call's response denotes, when it is JSON.
BodyIsJson(i) == JSONParse(WireTable(op[i]), response[i].body) # <<>>

BodyValue(i) == JSONParse(WireTable(op[i]), response[i].body)[1]

\* The label each operation's failure carries.
FailureLabel ==
  [sendMessage |-> "Failed to send message",
   getMessage |-> "Failed to get message",
   getMessagesByStatus |-> "Failed to get messages by status"]

\* C6: on a response whose status is outside 200..299 the operation rejects
\* with an Error whose message is label: status statusText, whatever the
\* body holds, without decoding the body and without a result.
FailureStatusRejects ==
  \A i \in Calls :
    SettledOn(i, FALSE) =>
      outcome[i] =
        [kind |-> "rejected",
         value |-> Err("Error",
                       FailureLabel[op[i]] \o ": "
                         \o ToString(response[i].status) \o " "
                         \o response[i].statusText),
         json |-> FALSE]

\* getMessagesByStatus has settled on a 400 whose body is a JSON error object.
FailureStatusWitness ==
  /\ SettledOn(1, FALSE)
  /\ op[1] = "getMessagesByStatus"
  /\ response[1].status = 400
  /\ BodyIsJson(1)
  /\ outcome[1].value.v[2] = "Failed to get messages by status: 400 Bad Request"

\* The timestamp fields of each response shape (of an entry, for a listing).
TimestampFields ==
  [sendMessage |-> {"scheduledAt"},
   getMessage |-> {"createdAt", "updatedAt", "scheduledAt", "lastAttemptAt"},
   getMessagesByStatus |-> {"scheduledAt", "lastAttemptAt"}]

\* The <<response object, result object>> pairs of a call that resolved: the
\* body and the result, or for a listing each entry and the result's entry at
\* the same place.
Conversions(i) ==
  IF ~(SettledOn(i, TRUE) /\ BodyIsJson(i) /\ outcome[i].kind = "resolved")
    THEN {}
  ELSE IF op[i] = "getMessagesByStatus"
    THEN { <<BodyValue(i).v[j], outcome[i].value.v[j]>> :
             j \in 1..(IF Len(BodyValue(i).v) <= Len(outcome[i].value.v)
                         THEN Len(BodyValue(i).v)
                         ELSE Len(outcome[i].value.v)) }
    ELSE { <<BodyValue(i), outcome[i].value>> }

\* The timestamp strings a response object carries, as <<field, string>>.
TimestampsOf(i, x) ==
  { <<f, Get(x.v, f).v>> :
      f \in {g \in TimestampFields[op[i]] : Get(x.v, g).t = "str"} }

\* C7: a success response with a JSON body resolves the operation, and every
\* timestamp string of every response shape comes back as the point in time
\* that string denotes (and sendMessage's messageId comes back verbatim).
TimestampsDecoded ==
  \A i \in Calls :
    (SettledOn(i, TRUE) /\ BodyIsJson(i)) =>
      /\ outcome[i].kind = "resolved"
      /\ op[i] = "sendMessage" =>
           Get(outcome[i].value.v, "messageId") = Get(BodyValue(i).v, "messageId")
      /\ op[i] = "getMessagesByStatus" =>
           Len(outcome[i].value.v) = Len(BodyValue(i).v)
      /\ \A c \in Conversions(i) :
           \A ts \in TimestampsOf(i, c[1]) :
             /\ IsValidDate(Get(c[2].v, ts[1]))
             /\ Get(c[2].v, ts[1]) = DateParse(ts[2])

\* getMessage has resolved on a response that carries all four timestamps,
\* the creation time being 2024-01-01T12:00:00Z.
TimestampsDecodedWitness ==
  /\ SettledOn(1, TRUE) /\ BodyIsJson(1)
  /\ op[1] = "getMessage"
  /\ Cardinality(TimestampsOf(1, BodyValue(1))) = 4
  /\ Get(BodyValue(1).v, "createdAt") = Str("2024-01-01T12:00:00Z")
  /\ Get(outcome[1].value.v, "createdAt") = DateOf(19723, 43200000)

\* C8 as claimed: every decoded timestamp, serialized again with
\* toISOString, is the string the response held.
TimestampRoundTripExact ==
  \A i \in Calls :
    \A c \in Conversions(i) :
      \A ts \in TimestampsOf(i, c[1]) :
        /\ IsValidDate(Get(c[2].v, ts[1]))
        /\ ToISOString(Get(c[2].v, ts[1])) = ts[2]

\* The string has the form toISOString writes: YYYY-MM-DDTHH:mm:ss.sssZ.
IsCanonicalForm(s) == Len(s) = 24 /\ CharAt(s, 20) = "." /\ CharAt(s, 24) = "Z"

\* C8 as amended: every decoded timestamp, serialized again, is the
\* toISOString form (UTC, milliseconds) of the instant the response's string
\* denotes, and equals that string exactly when the string already has that
\* form.
TimestampRoundTripInstant ==
  \A i \in Calls :
    \A c \in Conversions(i) :
      \A ts \in TimestampsOf(i, c[1]) :
        /\ IsValidDate(Get(c[2].v, ts[1]))
        /\ LET again == ToISOString(Get(c[2].v, ts[1]))
           IN  /\ IsCanonicalForm(again)
               /\ DateParse(again) = DateParse(ts[2])
               /\ (again = ts[2]) <=> IsCanonicalForm(ts[2])

\* A listing has resolved whose second entry's last attempt was written with
\* a zone offset and reads 2024-02-29T23:30:00.250Z when serialized again.
TimestampRoundTripWitness ==
  /\ op[1] = "getMessagesByStatus"
  /\ Cardinality(Conversions(1)) = 2
  /\ Get(BodyValue(1).v[2].v, "lastAttemptAt") = Str("2024-03-01T01:30:00.250+02:00")
  /\ ToISOString(Get(outcome[1].value.v[2].v, "lastAttemptAt"))
       = "2024-02-29T23:30:00.250Z"

\* C9 as claimed: the result of getMessage, and every entry of the result of
\* getMessagesByStatus, has exactly the fields of the response object, the
\* fields that are not timestamps unchanged.
ResultHasResponseFields ==
  \A i \in Calls :
    op[i] \in {"getMessage", "getMessagesByStatus"} =>
      \A c \in Conversions(i) :
        /\ Keys(c[2].v) = Keys(c[1].v)
        /\ \A k \in Keys(c[1].v) \ TimestampFields[op[i]] :
             Get(c[2].v, k) = Get(c[1].v, k)

\* C9 as amended: the result has the fields of the response object and the
\* operation's timestamp fields, each field once; the fields that are not
\* timestamps are unchanged, so an error the response lacks stays absent;
\* lastAttemptAt is always a field of the result, holding undefined when the
\* response has none (or null).
ResultFieldsPassThrough ==
  \A i \in Calls :
    op[i] \in {"getMessage", "getMessagesByStatus"} =>
      \A c \in Conversions(i) :
        /\ Keys(c[2].v) = Keys(c[1].v) \cup TimestampFields[op[i]]
        /\ \A k \in Keys(c[2].v) : Count(c[2].v, k) = 1
        /\ \A k \in Keys(c[1].v) \ TimestampFields[op[i]] :
             Get(c[2].v, k) = Get(c[1].v, k)
        /\ ~Has(c[1].v, "error") => ~Has(c[2].v, "error")
        /\ ~Truthy(Get(c[1].v, "lastAttemptAt")) =>
             Get(c[2].v, "lastAttemptAt") = Undefined

\* getMessage has resolved on a response with neither lastAttemptAt nor error.
ResultFieldsWitness ==
  /\ op[1] = "getMessage"
  /\ Conversions(1) # {}
  /\ ~Has(BodyValue(1).v, "lastAttemptAt")
  /\ ~Has(BodyValue(1).v, "error")
  /\ Has(BodyValue(1).v, "maxAttempts")
  /\ Has(outcome[1].value.v, "lastAttemptAt")

\* C10: a success response to getMessagesByStatus that is a list of n entries
\* resolves to a list of n entries, the i-th with the id, status and attempts
\* of the i-th response entry; the empty list resolves to the empty list.
ListingKeepsOrder ==
  \A i \in Calls :
    (SettledOn(i, TRUE) /\ op[i] = "getMessagesByStatus" /\ BodyIsJson(i)) =>
      LET data == BodyValue(i).v
      IN  /\ outcome[i].kind = "resolved"
          /\ outcome[i].value.t = "arr"
          /\ Len(outcome[i].value.v) = Len(data)
          /\ \A j \in 1..Len(data) :
               \A k \in {"id", "status", "attempts"} :
                 /\ Has(outcome[i].value.v[j].v, k)
                 /\ Get(outcome[i].value.v[j].v, k) = Get(data[j].v, k)

\* A listing of msg-2 then msg-1 has resolved.
ListingWitness ==
  /\ SettledOn(1, TRUE) /\ op[1] = "getMessagesByStatus" /\ BodyIsJson(1)
  /\ Len(BodyValue(1).v) = 2
  /\ Get(BodyValue(1).v[1].v, "id") = Str("msg-2")
  /\ Get(outcome[1].value.v[2].v, "id") = Str("msg-1")

\* C11 as claimed: every invocation issues exactly one request over its
\* lifetime: one once it has begun, still one while it waits, after the
\* response or the transport failure, and when it has completed, however it
\* ended; none completes without a request.
OneRequestPerInvocation ==
  \A i \in Calls :
    /\ pc[i] = "idle" => fetchCount[i] = 0
    /\ pc[i] # "idle" => fetchCount[i] = 1

\* The arguments of the sendMessage call cannot be made into a request: the
\* delay or the notBefore is an Invalid Date, or the body holds a BigInt.
Unbuildable(i) ==
  /\ op[i] = "sendMessage"
  /\ LET delay == OptionOf(args[i].options, "delay")
         notBefore == OptionOf(args[i].options, "notBefore")
     IN  \/ delay.t = "date" /\ delay = InvalidDate
         \/ notBefore.t = "date" /\ notBefore = InvalidDate
         \/ Truthy(args[i].body) /\ ~Serializable(args[i].body)

\* C11 as amended: no invocation issues more than one request, whichever way
\* it ends; every invocation issues exactly one, but for a sendMessage whose
\* arguments cannot be made into a request, which is rejected with the error
\* of the conversion (RangeError, TypeError) and has issued none.
AtMostOneRequestPerInvocation ==
  \A i \in Calls :
    /\ fetchCount[i] <= 1
    /\ pc[i] = "idle" => fetchCount[i] = 0
    /\ pc[i] \in {"fetching", "responded"} => fetchCount[i] = 1
    /\ pc[i] = "done" =>
         IF Unbuildable(i)
           THEN /\ fetchCount[i] = 0
                /\ request[i] = NoRequest
                /\ outcome[i].kind = "rejected"
                /\ outcome[i].value.v[1] \in {"RangeError", "TypeError"}
           ELSE /\ fetchCount[i] = 1
                /\ request[i] # NoRequest
                /\ outcome[i].kind \in {"resolved", "rejected"}

\* sendMessage has failed on a transport failure, having issued one request.
OneRequestWitness ==
  /\ pc[1] = "done"
  /\ op[1] = "sendMessage"
  /\ response[1].kind = "failure"
  /\ outcome[1].kind = "rejected"
  /\ fetchCount[1] = 1

\* What one call holds: everything but the configuration.
CallState(i) ==
  <<pc[i], op[i], args[i], request[i], response[i], outcome[i], fetchCount[i]>>

\* The request the call's operation builds from the configuration and the
\* call's own arguments.
RequestAlone(i) ==
  CASE op[i] = "sendMessage" ->
         SendRequest(config, args[i].callbackUrl, args[i].body, args[i].options)
    [] op[i] = "getMessage" -> GetMessageRequest(config, args[i].messageId)
    [] op[i] = "getMessagesByStatus" ->
         GetMessagesByStatusRequest(config, args[i].status)

\* The outcome the call's operation makes of the call's own response.
OutcomeAlone(i) ==
  CASE op[i] = "sendMessage" -> SendMessageSettle(response[i])
    [] op[i] = "getMessage" -> GetMessageSettle(response[i])
    [] op[i] = "getMessagesByStatus" -> GetMessagesByStatusSettle(response[i])

\* Every call in flight has the request of its own arguments and the current
\* configuration, and every completed call the outcome of its own response.
CallsStandAlone ==
  \A i \in Calls :
    /\ Issued(i) => request[i] = RequestAlone(i)
    /\ (Issued(i) /\ pc[i] = "done") => outcome[i] = OutcomeAlone(i)
    /\ pc[i] \in {"fetching", "responded"} => outcome[i] = Pending

\* C12: with the calls of one client in flight at once and their requests and
\* responses in any order, the configuration never changes, every call has
\* the request and the outcome it has when it runs alone (they are those of
\* its own arguments, the configuration and its own response), and a step of
\* one call changes nothing another call holds.
ConcurrentCallsIndependent ==
  /\ []CallsStandAlone
  /\ [][ /\ config' = config
         /\ \A i, j \in Calls :
              (i # j /\ CallState(i)' # CallState(i)) =>
                CallState(j)' = CallState(j) ]_vars

\* Two sendMessage calls are in flight at once with different options: the
\* second has failed on a 400 while the first, begun with custom headers,
\* still waits for its response.
ConcurrentCallsWitness ==
  /\ pc[1] = "fetching" /\ pc[2] = "done"
  /\ op[1] = "sendMessage" /\ op[2] = "sendMessage"
  /\ "Done-Custom-Header" \in CustomNames(1)
  /\ args[2].options = Undefined
  /\ response[2].status = 400
  /\ Keys(request[2].headers) = {"Authorization", "Content-Type"}

\* The timestamp fields every response object of the operation must hold.
RequiredTimestamps ==
  [sendMessage |-> {"scheduledAt"},
   getMessage |-> {"createdAt", "updatedAt", "scheduledAt"},
   getMessagesByStatus |-> {"scheduledAt"}]

\* The JSON body of the call's response lacks a required timestamp field (in
\* one of its entries, for a listing).
LacksRequiredTimestamp(i) ==
  /\ BodyIsJson(i)
  /\ LET data == BodyValue(i)
         objects == IF op[i] = "getMessagesByStatus"
                      THEN {data.v[j] : j \in 1..Len(data.v)}
                      ELSE {data}
     IN  \E x \in objects :
           \E f \in RequiredTimestamps[op[i]] : ~Has(x.v, f)

\* C13: an operation that has settled on a success-status response whose
\* body is not JSON, or whose body lacks a required timestamp field, has
\* failed: it is rejected and has returned no result value.
DecodeFailureRejects ==
  \A i \in Calls :
    (SettledOn(i, TRUE) /\ (~BodyIsJson(i) \/ LacksRequiredTimestamp(i))) =>
      /\ outcome[i].kind = "rejected"
      /\ outcome[i].json

\* C14: an operation whose fetch the transport failed has completed rejected
\* with the very error the transport raised (same kind, same message, not an
\* error labelled "Failed to ..."), without a result value and without the
\* body having been decoded.
TransportFailurePropagates ==
  \A i \in Calls :
    (pc[i] = "done" /\ response[i].kind = "failure") =>
      /\ outcome[i].kind = "rejected"
      /\ outcome[i].value = response[i].error
      /\ ~StartsWith(outcome[i].value.v[2], "Failed to")
      /\ ~outcome[i].json

\* getMessagesByStatus has completed after the transport refused the URL.
TransportFailureWitness ==
  /\ pc[1] = "done"
  /\ op[1] = "getMessagesByStatus"
  /\ response[1].kind = "failure"
  /\ outcome[1] = Rejected(Err("TypeError", "Invalid URL"), FALSE)

\* The string a supplied control option has on the wire.
ControlValue(o, x) ==
  CASE o = "delay" -> IF x.t = "str" THEN x.v ELSE ToISOString(x)
    [] o = "notBefore" -> ToISOString(x)
    [] o = "maxAttempts" -> ToString(x.v)
    [] o = "failureCallback" -> x.v

\* The control options of a sendMessage call that are supplied while a custom
\* header has their header's name.
Collisions(i) ==
  { o \in DOMAIN ControlHeader :
      /\ ControlHeader[o] \in CustomNames(i)
      /\ OptionOf(args[i].options, o) # Undefined }

\* C15: when a custom-headers key K makes Done-K the name of a control header
\* whose option is supplied too, the call is not rejected for it (it issues
\* its request unless an argument has no wire form), and the request has that
\* name once, with the custom entry's value and not the option's, and no
\* header name twice.
CollisionCustomWins ==
  \A i \in Calls :
    (pc[i] # "idle" /\ op[i] = "sendMessage" /\ Collisions(i) # {}) =>
      /\ ~Unbuildable(i) => Issued(i)
      /\ Issued(i) =>
           /\ Len(request[i].headers) = Cardinality(Keys(request[i].headers))
           /\ \A o \in Collisions(i) :
                LET h == request[i].headers
                    name == ControlHeader[o]
                    key == SubSeq(name, 6, Len(name))
                    custom == Get(CustomEntries(i), key).v
                    control == ControlValue(o, OptionOf(args[i].options, o))
                IN  /\ Count(h, name) = 1
                    /\ GetStr(h, name) = custom
                    /\ custom # control =>
                         ~\E k \in 1..Len(h) : h[k] = <<name, control>>

\* A request whose custom headers name Max-Attempts and Not-Before while
\* maxAttempts is 5 and notBefore a Date: it carries the custom "9" and
\* "soon".
CollisionWitness ==
  /\ IsSend(1)
  /\ {"maxAttempts", "notBefore"} \subseteq Collisions(1)
  /\ OptionOf(args[1].options, "maxAttempts") = Num(5)
  /\ GetStr(request[1].headers, "Done-Max-Attempts") = "9"
  /\ GetStr(request[1].headers, "Done-Not-Before") = "soon"

====
